---- MODULE Spec2Model ----
(***************************************************************************)
(* A model of the waveparser package (NeowayLabs/waveparser).              *)
(*                                                                         *)
(* Spec        : Load = parseHeader on a byte source followed by ReadAll.  *)
(*               parseHeader is modelled read by read on real byte         *)
(*               sequences; the source position is the file offset.        *)
(*               32-bit values and file offsets are pairs of 16-bit        *)
(*               digits, and a source may hold runs of unwritten bytes,    *)
(*               so that offsets beyond 2^32 are reached.                  *)
(* SpecFair    : Spec, with Load running until it returns.                 *)
(* SpecDecode  : the two sample decoders applied to a Wav payload.         *)
(* SpecConcurrent : decoder calls running concurrently on one Wav, one   *)
(*               pass through a decoder's loop at a time.                  *)
(* SpecDiff    : the wavediff command: main, diffHeaders, the exit status. *)
(***************************************************************************)
EXTENDS Integers, Sequences, FiniteSets, TLC

VARIABLES
    file,       \* description the input bytes were built from (input only)
    src,        \* contents of the byte source handed to parseHeader
    pos,        \* read position of the source (offset from the start)
    pc,         \* position inside Load / parseHeader
    riffhdr,    \* parseHeader local: the parsed RiffHeader
    chunk,      \* parseHeader local: the last chunk tag read   ([4]byte)
    chunkFmt,   \* parseHeader local: the parsed RiffChunkFmt
    chunkSize,  \* parseHeader local: the last chunk size read  (uint32)
    hdr,        \* WavHeader returned by parseHeader
    err,        \* error returned by parseHeader / Load ("nil" = no error)
    wav,        \* the *Wav returned by Load or handed to a decoder: << >> is
                \* nil, << w >> points to w = [Header, Data]
    out16,      \* << >>, or << r >> with r the last Int16LESamples result
    out32,      \* << >>, or << r >> with r the last Float32LESamples result
    calls,      \* number of decoder calls made on wav
    running,    \* the decoder calls running concurrently on wav, each with its
                \* locals and, once it has returned, its result
    args,       \* wavediff: os.Args[1:], each file argument kept as what Load
                \* returns for it
    stdout,     \* wavediff: the lines printed so far
    differs,    \* wavediff: << >>, or << b >> with b what diffHeaders returned
    exitStatus  \* wavediff: << >>, or << n >> with n the process exit status

diffVars == <<args, stdout, differs, exitStatus>>

vars == <<file, src, pos, pc, riffhdr, chunk, chunkFmt, chunkSize, hdr, err,
          wav, out16, out32, calls, running, args, stdout, differs, exitStatus>>

----------------------------------------------------------------------------
(* Bounds of the model *)

MaxPre == 2          \* chunks between the fmt chunk and the data chunk
MaxTrail == 2        \* bytes present after the data chunk's tag and size
MaxSamples == 3      \* complete 4-byte groups in a decoder payload
MaxCalls == 2        \* decoder calls on one Wav
MaxGroups == 2       \* 4-byte groups in a payload decoded concurrently
MaxDiff == 2         \* header fields in which wavediff's second header is altered

----------------------------------------------------------------------------
(* Bytes and fixed-width integers *)

Pow16 == 2 ^ 16

\* A uint32 and an int64 file offset are kept as two digits of 16 bits:
\* [hi, lo] is hi * 2^16 + lo, with 0 <= lo < 2^16, and hi < 2^16 in a uint32.
Wide(n) == [hi |-> n \div Pow16, lo |-> n % Pow16]

Plus(a, b) ==
    LET l == a.lo + b.lo IN
    [hi |-> a.hi + b.hi + (l \div Pow16), lo |-> l % Pow16]

Minus(a, b) ==
    LET l == a.lo - b.lo IN
    [hi |-> a.hi - b.hi + (l \div Pow16), lo |-> l % Pow16]

Less(a, b) == a.hi < b.hi \/ (a.hi = b.hi /\ a.lo < b.lo)
AtMost(a, b) == ~ Less(b, a)

\* the integer a pair below 2^31 stands for
ToInt(w) == w.hi * Pow16 + w.lo

\* uint32(pos) of an int64 pos >= 0: the low 32 bits
Uint32(w) == [hi |-> w.hi % Pow16, lo |-> w.lo]

\* A declared chunk size far beyond any source without unwritten runs, and
\* the length of a run of unwritten bytes (2^31 - 1).
HugeSize == 2 ^ 30
HoleSize == HugeSize - 1 + HugeSize

Nil == "nil"

\* binary.LittleEndian.Uint16 / Uint32 of a 2- or 4-byte slice
LE16(b) == b[1] + 256 * b[2]
LE32(b) == [hi |-> b[3] + 256 * b[4], lo |-> b[1] + 256 * b[2]]

\* the inverse, as binary.Write(..., binary.LittleEndian, ...) lays integers out
PutLE16(n) == << n % 256, (n \div 256) % 256 >>
PutLE32(n) == << n % 256, (n \div 256) % 256, (n \div 65536) % 256,
                 (n \div 16777216) % 256 >>

\* ASCII tags
TagRIFF == << 82, 73, 70, 70 >>
TagRIFX == << 82, 73, 70, 88 >>
Tagriff == << 114, 105, 102, 102 >>
TagWAVE == << 87, 65, 86, 69 >>
TagFmt  == << 102, 109, 116, 32 >>
TagFmtU == << 102, 109, 116, 95 >>
TagData == << 100, 97, 116, 97 >>
TagLIST == << 76, 73, 83, 84 >>

\* audio formats the package names
WaveFormatPCM        == 1
WaveFormatIEEEFloat  == 3
WaveFormatALAW       == 6
WaveFormatMULAW      == 7
WaveFormatExtensible == 65534

----------------------------------------------------------------------------
(* The source.  A source is the bytes written to the file, in order, and   *)
(* the unwritten runs of a sparse file, which read as zero: a run is kept   *)
(* as the offsets where it starts and ends and the number of unwritten      *)
(* bytes up to its end.  So a source longer than 2^32 bytes is a small      *)
(* value.                                                                   *)

RECURSIVE RunSum(_, _)
\* the number of bytes in the first k runs of a byte sequence in which a
\* negative element -n stands for a run of n unwritten bytes
RunSum(flat, k) ==
    IF k = 0 THEN Wide(0)
    ELSE LET idx == SelectSeq([i \in 1..Len(flat) |-> i], LAMBDA i : flat[i] < 0) IN
         Plus(Wide(0 - flat[idx[k]]), RunSum(flat, k - 1))

\* the source such a byte sequence describes
Source(flat) ==
    LET idx == SelectSeq([i \in 1..Len(flat) |-> i], LAMBDA i : flat[i] < 0)
        written == SelectSeq(flat, LAMBDA e : e >= 0) IN
    [bytes |-> written,
     runs |-> [j \in 1..Len(idx) |->
                 [start |-> Plus(Wide(idx[j] - j), RunSum(flat, j - 1)),
                  end |-> Plus(Wide(idx[j] - j), RunSum(flat, j)),
                  unwritten |-> RunSum(flat, j)]],
     size |-> Plus(Wide(Len(written)), RunSum(flat, Len(idx)))]

\* the number of bytes of a source
Size(s) == s.size

\* the number of unwritten bytes before offset p, p not inside a run
Unwritten(s, p) ==
    LET passed == { j \in 1..Len(s.runs) : AtMost(s.runs[j].end, p) } IN
    IF passed = {} THEN Wide(0) ELSE s.runs[Cardinality(passed)].unwritten

\* the byte at offset p < Size(s)
ByteAt(s, p) ==
    IF \E j \in 1..Len(s.runs) : AtMost(s.runs[j].start, p) /\ Less(p, s.runs[j].end)
      THEN 0
      ELSE s.bytes[ToInt(Minus(p, Unwritten(s, p))) + 1]

\* the n bytes from offset p on, p + n <= Size(s): written bytes when they
\* lie before every run
Bytes(s, p, n) ==
    IF \A j \in 1..Len(s.runs) : AtMost(Plus(p, Wide(n)), s.runs[j].start)
      THEN SubSeq(s.bytes, ToInt(p) + 1, ToInt(p) + n)
      ELSE [i \in 1..n |-> ByteAt(s, Plus(p, Wide(i - 1)))]

(* Reading from the source: io.ReadFull as binary.Read uses it.            *)
(* No bytes left: io.EOF, position unchanged.  Fewer than n bytes left:    *)
(* io.ErrUnexpectedEOF, the position ends at the end of the source.        *)

\* variant: a short read is taken as complete, the missing bytes left zero
ReadFull_ShortReadAccepted(s, p, n) ==
    IF AtMost(Size(s), p)
      THEN [err |-> "EOF", data |-> << >>, pos |-> p]
      ELSE IF Less(Size(s), Plus(p, Wide(n)))
        THEN [err |-> Nil,
              data |-> Bytes(s, p, ToInt(Minus(Size(s), p)))
                       \o [i \in 1..(n - ToInt(Minus(Size(s), p))) |-> 0],
              pos |-> Size(s)]
        ELSE [err |-> Nil, data |-> Bytes(s, p, n), pos |-> Plus(p, Wide(n))]

ReadFull(s, p, n) ==
    IF AtMost(Size(s), p)
      THEN [err |-> "EOF", data |-> << >>, pos |-> p]
      ELSE IF Less(Size(s), Plus(p, Wide(n)))
        THEN [err |-> "unexpected EOF", data |-> << >>, pos |-> Size(s)]
        ELSE [err |-> Nil, data |-> Bytes(s, p, n), pos |-> Plus(p, Wide(n))]

\* r.Seek(off, os.SEEK_CUR) with off >= 0: a file position may lie beyond the
\* end of the file, so the seek itself never fails.
SeekCur(p, off) == Plus(p, off)

\* the zero values Go returns along with an error
ZeroRiffHeader == [Ident |-> << 0, 0, 0, 0 >>, ChunkSize |-> Wide(0),
                   FileType |-> << 0, 0, 0, 0 >>]
ZeroChunkFmt == [LengthOfHeader |-> Wide(0), AudioFormat |-> 0, NumChannels |-> 0,
                 SampleRate |-> Wide(0), BytesPerSec |-> Wide(0), BytesPerBloc |-> 0,
                 BitsPerSample |-> 0]
ZeroWavHeader == [RIFFHdr |-> ZeroRiffHeader, RIFFChunkFmt |-> ZeroChunkFmt,
                  FirstSamplePos |-> Wide(0), DataBlockSize |-> Wide(0)]

\* binary.Read of a RiffHeader / RiffChunkFmt: fields in declaration order
DecodeRiffHeader(b) ==
    [Ident |-> SubSeq(b, 1, 4), ChunkSize |-> LE32(SubSeq(b, 5, 8)),
     FileType |-> SubSeq(b, 9, 12)]

DecodeChunkFmt(b) ==
    [LengthOfHeader |-> LE32(SubSeq(b, 1, 4)),
     AudioFormat    |-> LE16(SubSeq(b, 5, 6)),
     NumChannels    |-> LE16(SubSeq(b, 7, 8)),
     SampleRate     |-> LE32(SubSeq(b, 9, 12)),
     BytesPerSec    |-> LE32(SubSeq(b, 13, 16)),
     BytesPerBloc   |-> LE16(SubSeq(b, 17, 18)),
     BitsPerSample  |-> LE16(SubSeq(b, 19, 20))]

isValidWavFormat(fmt) ==
    fmt \in {WaveFormatMULAW, WaveFormatALAW, WaveFormatIEEEFloat, WaveFormatPCM}

----------------------------------------------------------------------------
(* Inputs: byte sources built from a description.  A description names the *)
(* RIFF identifier, the first chunk tag, the fmt fields, the bytes after   *)
(* the fmt body, the chunks before the data chunk, the data chunk (if any) *)
(* and the number of bytes kept (cut), so truncated sources are covered.   *)

Idents == {TagRIFF, TagRIFX, Tagriff}
FmtTags == {TagFmt, TagFmtU}
Formats == {WaveFormatPCM, 2, WaveFormatIEEEFloat, WaveFormatALAW,
            WaveFormatMULAW, WaveFormatExtensible}

\* (LengthOfHeader, bytes that follow the 16 fmt fields)
Exts == { [hl |-> 16, bytes |-> << >>],
          [hl |-> 18, bytes |-> PutLE16(0)],
          [hl |-> 40, bytes |-> PutLE16(2) \o << 171, 205 >>] }

\* chunks that are not the data chunk: tag, declared size, body present
\* (the last one has its whole body present, as a run of unwritten bytes)
PreChunks == { [tag |-> TagLIST, size |-> 0, body |-> << >>],
               [tag |-> TagLIST, size |-> 1, body |-> << 7 >>],
               [tag |-> TagLIST, size |-> 4, body |-> TagData],
               [tag |-> TagLIST, size |-> HugeSize, body |-> << >>],
               [tag |-> TagLIST, size |-> HoleSize, body |-> << 0 - HoleSize >>] }

BodiesPresent(cs) ==
    \A i \in 1..Len(cs) : Size(Source(cs[i].body)) = Wide(cs[i].size)

\* Lists of chunks.  An unwritten run is tried in lists whose bodies are all
\* present, so that no skip ends inside the run (the walk would then read
\* the run 8 zero bytes at a time).
PreSeqs ==
    { pr \in UNION { [1..n -> PreChunks] : n \in 0..MaxPre } :
        (\E i \in 1..Len(pr) : pr[i].size = HoleSize) => BodiesPresent(pr) }

\* declared sizes of the data chunk; -1 stands for "no data chunk"
NoData == 0 - 1
DataSizes == {0, 1, HugeSize}
DataOpts == DataSizes \cup {NoData}

RECURSIVE EncodeChunks(_)
EncodeChunks(cs) ==
    IF cs = << >> THEN << >>
    ELSE Head(cs).tag \o PutLE32(Head(cs).size) \o Head(cs).body
         \o EncodeChunks(Tail(cs))

\* the i-th payload byte; values chosen so that no two neighbours are equal
TrailByte(i) == (16 + 3 * i) % 256
TrailBytes(n) == [i \in 1..n |-> TrailByte(i)]

EncodeTail(f) ==
    f.ext.bytes \o EncodeChunks(f.pre)
    \o (IF f.data = NoData THEN << >> ELSE TagData \o PutLE32(f.data))
    \o TrailBytes(f.trail)

EncodeFile(f) ==
    f.ident \o PutLE32(24 + Len(EncodeTail(f))) \o TagWAVE
    \o f.ftag
    \o PutLE32(f.ext.hl) \o PutLE16(f.format) \o PutLE16(1) \o PutLE32(8000)
    \o PutLE32(16000) \o PutLE16(2) \o PutLE16(16)
    \o EncodeTail(f)

Descr(id, ft, fm, ex, pr, d, t) ==
    [ident |-> id, ftag |-> ft, format |-> fm, ext |-> ex, pre |-> pr,
     data |-> d, trail |-> t]

\* Every header variant is tried with every data chunk; chunk lists before the
\* data chunk are tried behind the headers that reach the chunk walk.
Descrs ==
    { Descr(id, ft, fm, ex, << >>, d, t) :
        id \in Idents, ft \in FmtTags, fm \in Formats, ex \in Exts,
        d \in DataOpts, t \in 0..MaxTrail }
    \cup
    { Descr(TagRIFF, TagFmt, WaveFormatPCM, ex, pr, d, t) :
        ex \in Exts, pr \in PreSeqs \ {<< >>}, d \in DataOpts, t \in 0..MaxTrail }

\* offset of the first chunk of the walk when the whole header is present
WalkStart(f) == 36 + Len(f.ext.bytes)

Cuts(f) ==
    IF f.pre = << >> THEN 0..Len(EncodeFile(f))
    ELSE WalkStart(f)..Len(EncodeFile(f))

----------------------------------------------------------------------------
(* Load and parseHeader *)

InitLocals ==
    /\ pos = Wide(0)
    /\ riffhdr = ZeroRiffHeader
    /\ chunk = << 0, 0, 0, 0 >>
    /\ chunkFmt = ZeroChunkFmt
    /\ chunkSize = Wide(0)
    /\ hdr = ZeroWavHeader
    /\ err = Nil
    /\ wav = << >>
    /\ out16 = << >>
    /\ out32 = << >>
    /\ calls = 0
    /\ running = << >>

\* wavediff is not running
NoDiff ==
    /\ args = << >>
    /\ stdout = << >>
    /\ differs = << >>
    /\ exitStatus = << >>

Init ==
    /\ file \in Descrs
    /\ \E cut \in Cuts(file) : src = Source(SubSeq(EncodeFile(file), 1, cut))
    /\ pc = "parseRIFFHeader"
    /\ InitLocals
    /\ NoDiff

\* return WavHeader{}, err
Fail(e, p) ==
    /\ pc' = "failed"
    /\ err' = e
    /\ pos' = p
    /\ hdr' = ZeroWavHeader
    /\ UNCHANGED <<file, src, wav, out16, out32, calls, running>>

\* variant: only the first three identifier bytes are compared
IsRIFFIdent_Prefix(ident) == SubSeq(ident, 1, 3) = SubSeq(TagRIFF, 1, 3)

\* string(hdr.Ident[:]) == "RIFF"
IsRIFFIdent(ident) == ident = TagRIFF

parseRIFFHeader ==
    /\ pc = "parseRIFFHeader"
    /\ UNCHANGED diffVars
    /\ \E r \in { ReadFull(src, pos, 12) } :
       IF r.err # Nil
         THEN Fail(r.err, r.pos) /\ UNCHANGED <<riffhdr, chunk, chunkFmt, chunkSize>>
         ELSE \E h \in { DecodeRiffHeader(r.data) } :
           IF ~ IsRIFFIdent(h.Ident)
             THEN Fail("Invalid RIFF identification", r.pos)
                  /\ UNCHANGED <<riffhdr, chunk, chunkFmt, chunkSize>>
             ELSE /\ riffhdr' = h
                  /\ pos' = r.pos
                  /\ pc' = "readFmtID"
                  /\ UNCHANGED <<file, src, chunk, chunkFmt, chunkSize, hdr, err,
                                 wav, out16, out32, calls, running>>

readFmtID ==
    /\ pc = "readFmtID"
    /\ UNCHANGED diffVars
    /\ \E r \in { ReadFull(src, pos, 4) } :
       IF r.err # Nil
         THEN Fail(r.err, r.pos) /\ UNCHANGED <<riffhdr, chunk, chunkFmt, chunkSize>>
         ELSE /\ chunk' = r.data
              /\ UNCHANGED <<riffhdr, chunkFmt, chunkSize>>
              /\ IF r.data # TagFmt
                   THEN Fail("Unexpected chunk type", r.pos)
                   ELSE /\ pos' = r.pos
                        /\ pc' = "readChunkFmt"
                        /\ UNCHANGED <<file, src, hdr, err, wav, out16, out32, calls, running>>

readChunkFmt ==
    /\ pc = "readChunkFmt"
    /\ UNCHANGED diffVars
    /\ \E r \in { ReadFull(src, pos, 20) } :
       IF r.err # Nil
         THEN Fail(r.err, r.pos) /\ UNCHANGED <<riffhdr, chunk, chunkFmt, chunkSize>>
         ELSE /\ chunkFmt' = DecodeChunkFmt(r.data)
              /\ UNCHANGED <<riffhdr, chunk, chunkSize>>
              /\ IF ~ isValidWavFormat(chunkFmt'.AudioFormat)
                   THEN Fail("Isn't an audio format", r.pos)
                   ELSE /\ pos' = r.pos
                        /\ pc' = IF chunkFmt'.LengthOfHeader # Wide(16)
                                   THEN "extraParams" ELSE "walk"
                        /\ UNCHANGED <<file, src, hdr, err, wav, out16, out32, calls, running>>

\* variant: the skip is computed from the declared header length
AfterExtraParams_ByLength(cf, p, extraparams) ==
    SeekCur(Minus(p, Wide(2)), Minus(cf.LengthOfHeader, Wide(16)))

\* the position after the extra params size was read at p - 2: the extra
\* params are skipped by that size, whatever the declared header length is
AfterExtraParams(cf, p, extraparams) == SeekCur(p, Wide(extraparams))

extraParams ==
    /\ pc = "extraParams"
    /\ UNCHANGED diffVars
    /\ \E r \in { ReadFull(src, pos, 2) } :
       IF r.err # Nil
         THEN Fail("error getting extra fmt params", r.pos)
         ELSE /\ pos' = AfterExtraParams(chunkFmt, r.pos, LE16(r.data))
              /\ pc' = "walk"
              /\ UNCHANGED <<file, src, hdr, err, wav, out16, out32, calls, running>>
    /\ UNCHANGED <<riffhdr, chunk, chunkFmt, chunkSize>>

\* variant: the skip is counted from the start of the chunk header
AfterChunkHeader_FromChunkStart(tag, p, size) ==
    IF tag # TagData THEN SeekCur(Minus(p, Wide(8)), size) ELSE p

\* the position after a chunk's tag and size were read at p - 8: a chunk that
\* is not the data chunk is skipped by its declared size
AfterChunkHeader(tag, p, size) ==
    IF tag # TagData THEN SeekCur(p, size) ELSE p

\* one iteration of: for string(chunk[:]) != "data" { ... }
walkChunk ==
    /\ pc = "walk"
    /\ UNCHANGED diffVars
    /\ chunk # TagData
    /\ \E rid \in { ReadFull(src, pos, 4) } :
       IF rid.err # Nil
         THEN Fail("Expected data chunkid", rid.pos) /\ UNCHANGED <<chunk, chunkSize>>
         ELSE /\ chunk' = rid.data
              /\ \E rsz \in { ReadFull(src, rid.pos, 4) } :
                   IF rsz.err # Nil
                     THEN Fail("Expected data chunkSize", rsz.pos) /\ UNCHANGED chunkSize
                     ELSE /\ chunkSize' = LE32(rsz.data)
                          /\ pos' = AfterChunkHeader(rid.data, rsz.pos, LE32(rsz.data))
                          /\ UNCHANGED <<file, src, pc, hdr, err, wav, out16, out32, calls, running>>
    /\ UNCHANGED <<riffhdr, chunkFmt>>

\* variant: the position recorded is the start of the data chunk
WavHeaderOf_ChunkStart(rh, cf, p, size) ==
    [RIFFHdr |-> rh, RIFFChunkFmt |-> cf,
     FirstSamplePos |-> Uint32(Minus(p, Wide(8))), DataBlockSize |-> Uint32(size)]

\* the WavHeader literal parseHeader returns on success
WavHeaderOf(rh, cf, p, size) ==
    [RIFFHdr |-> rh, RIFFChunkFmt |-> cf,
     FirstSamplePos |-> Uint32(p), DataBlockSize |-> Uint32(size)]

\* pos, _ := r.Seek(0, os.SEEK_CUR); return WavHeader{...}, nil
returnHeader ==
    /\ pc = "walk"
    /\ UNCHANGED diffVars
    /\ chunk = TagData
    /\ hdr' = WavHeaderOf(riffhdr, chunkFmt, pos, chunkSize)
    /\ pc' = "readAll"
    /\ UNCHANGED <<file, src, pos, riffhdr, chunk, chunkFmt, chunkSize, err,
                   wav, out16, out32, calls, running>>

\* ioutil.ReadAll: everything from the current position to the end
ReadAll(s, p) ==
    IF AtMost(Size(s), p) THEN << >> ELSE Bytes(s, p, ToInt(Minus(Size(s), p)))

\* Load after a successful parseHeader: data := ReadAll(f); return &Wav{...}
Load ==
    /\ pc = "readAll"
    /\ UNCHANGED diffVars
    /\ wav' = << [Header |-> hdr, Data |-> ReadAll(src, pos)] >>
    /\ pos' = IF AtMost(Size(src), pos) THEN pos ELSE Size(src)
    /\ pc' = "loaded"
    /\ UNCHANGED <<file, src, riffhdr, chunk, chunkFmt, chunkSize, hdr, err,
                   out16, out32, calls, running>>

Next ==
    \/ parseRIFFHeader
    \/ readFmtID
    \/ readChunkFmt
    \/ extraParams
    \/ walkChunk
    \/ returnHeader
    \/ Load

Spec == Init /\ [][Next]_vars

\* Load is one sequential call: it keeps running until it returns
SpecFair == Spec /\ WF_vars(Next)

----------------------------------------------------------------------------
(* The sample decoders.  A float32 is kept as the fields of its IEEE-754    *)
(* bit pattern, and compared as the hardware compares it.                  *)

\* math.Float32frombits(binary.LittleEndian.Uint32(b))
Float32FromLE(b) ==
    [sign |-> b[4] \div 128,
     exp  |-> (b[4] % 128) * 2 + b[3] \div 128,
     mant |-> (b[3] % 128) * 65536 + b[2] * 256 + b[1]]

IsNaN(f) == f.exp = 255 /\ f.mant # 0
Magnitude(f) == f.exp * (2 ^ 23) + f.mant
Ordinal(f) == IF f.sign = 1 THEN 0 - Magnitude(f) ELSE Magnitude(f)

\* a < b on float32: false when either side is NaN; -0 equals +0
Float32Less(a, b) == ~ IsNaN(a) /\ ~ IsNaN(b) /\ Ordinal(a) < Ordinal(b)

maxval == [sign |-> 0, exp |-> 127, mant |-> 0]     \* 1.0
minval == [sign |-> 1, exp |-> 127, mant |-> 0]     \* -1.0

\* if sample < minval || sample > maxval
OutsideRange(sample) == Float32Less(sample, minval) \/ Float32Less(maxval, sample)

\* variant: the sample keeps its unsigned value
ToInt16_Unsigned(u) == u

\* int16(u) of a uint16
ToInt16(u) == IF u >= 32768 THEN u - Pow16 ELSE u

RECURSIVE Int16Loop(_, _, _)
\* for i := 0; i < len(w.Data)-1; i += typesize { ... }
Int16Loop(data, i, audio) ==
    IF i < Len(data) - 1
      THEN Int16Loop(data, i + 2,
                     Append(audio, ToInt16(LE16(SubSeq(data, i + 1, i + 2)))))
      ELSE audio

Int16LESamplesOf(data) == [audio |-> Int16Loop(data, 0, << >>), err |-> Nil]

\* variant: any end of the payload, clean or not, ends the loop without error
Float32LoopEnd_AnyEOF(e, audio) ==
    [audio |-> audio, nilAudio |-> FALSE, err |-> Nil, cause |-> Nil,
     sample |-> << >>]

\* the error a read leaves the float loop with, once it is not nil
\* (audio is the slice returned, meaningful when nilAudio is FALSE; cause is
\* the error or the sample the message prints)
Float32LoopEnd(e, audio) ==
    IF e # "EOF"
      THEN [audio |-> << >>, nilAudio |-> TRUE,
            err |-> "error loading audio as float32 samples",
            cause |-> e, sample |-> << >>]
      ELSE [audio |-> audio, nilAudio |-> FALSE, err |-> Nil, cause |-> Nil,
            sample |-> << >>]

RECURSIVE Float32Loop(_, _, _)
\* for err == nil { err = binary.Read(reader, binary.LittleEndian, &sample) ... }
Float32Loop(data, p, audio) ==
    LET r == ReadFull(Source(data), p, 4) IN
    IF r.err = Nil
      THEN LET sample == Float32FromLE(r.data) IN
           IF OutsideRange(sample)
             THEN [audio |-> << >>, nilAudio |-> TRUE,
                   err |-> "sample is outside the valid value range",
                   cause |-> Nil, sample |-> << sample >>]
             ELSE Float32Loop(data, r.pos, Append(audio, sample))
      ELSE Float32LoopEnd(r.err, audio)

Float32LESamplesOf(data) == Float32Loop(data, Wide(0), << >>)

\* Payloads: up to MaxSamples 4-byte groups followed by 0 to 3 further bytes.
Groups == { << 0, 0, 0, 0 >>,            \* 0.0
            << 0, 0, 128, 63 >>,         \* 1.0
            << 0, 0, 128, 191 >>,        \* -1.0
            << 1, 0, 128, 63 >>,         \* the float32 next above 1.0
            << 174, 71, 129, 191 >>,     \* -1.01
            << 164, 112, 125, 191 >>,    \* -0.99
            << 0, 0, 192, 127 >>,        \* NaN
            << 0, 0, 128, 127 >> }       \* +Inf

Rests == { << >>, << 255 >>, << 0, 128 >>, << 0, 0, 128 >> }

RECURSIVE Flatten(_)
Flatten(gs) == IF gs = << >> THEN << >> ELSE Head(gs) \o Flatten(Tail(gs))

Payloads ==
    { Flatten(gs) \o rest :
        gs \in UNION { [1..n -> Groups] : n \in 0..MaxSamples }, rest \in Rests }

\* headers a decoded Wav may carry (the decoders never read them)
DecodeHeaders ==
    { [ZeroWavHeader EXCEPT !.RIFFChunkFmt.AudioFormat = WaveFormatIEEEFloat,
                            !.RIFFChunkFmt.NumChannels = 1],
      [ZeroWavHeader EXCEPT !.RIFFChunkFmt.AudioFormat = WaveFormatPCM,
                            !.RIFFChunkFmt.BitsPerSample = 16] }

\* (file keeps the Wav as it was handed to the decoders)
InitDecode ==
    /\ src = Source(<< >>)
    /\ pos = Wide(0)
    /\ pc = "decode"
    /\ riffhdr = ZeroRiffHeader
    /\ chunk = << 0, 0, 0, 0 >>
    /\ chunkFmt = ZeroChunkFmt
    /\ chunkSize = Wide(0)
    /\ hdr = ZeroWavHeader
    /\ err = Nil
    /\ \E h \in DecodeHeaders, d \in Payloads : wav = << [Header |-> h, Data |-> d] >>
    /\ file = wav[1]
    /\ out16 = << >>
    /\ out32 = << >>
    /\ calls = 0
    /\ running = << >>
    /\ NoDiff

Int16LESamples ==
    /\ pc = "decode"
    /\ UNCHANGED diffVars
    /\ calls < MaxCalls
    /\ out16' = << Int16LESamplesOf(wav[1].Data) >>
    /\ calls' = calls + 1
    /\ UNCHANGED <<file, src, pos, pc, riffhdr, chunk, chunkFmt, chunkSize, hdr,
                   err, wav, out32, running>>

Float32LESamples ==
    /\ pc = "decode"
    /\ UNCHANGED diffVars
    /\ calls < MaxCalls
    /\ out32' = << Float32LESamplesOf(wav[1].Data) >>
    /\ calls' = calls + 1
    /\ UNCHANGED <<file, src, pos, pc, riffhdr, chunk, chunkFmt, chunkSize, hdr,
                   err, wav, out16, running>>

NextDecode ==
    \/ Int16LESamples
    \/ Float32LESamples

SpecDecode == InitDecode /\ [][NextDecode]_vars

----------------------------------------------------------------------------
(* Decoder calls running concurrently on one Wav.  A call keeps its locals *)
(* (the loop position and the audio slice); w is the receiver, of which    *)
(* every pass reads the Data of the moment.  A step is one pass through    *)
(* the loop of one call, so the passes of the calls interleave freely.     *)

\* audio := []int16{}; i := 0
Int16Call(w) ==
    [fn |-> "Int16LESamples", at |-> 0, audio |-> << >>, ret |-> << >>]

\* one test of the loop condition and, when it holds, one pass through
\* for i := 0; i < len(w.Data)-1; i += typesize { ... }; return audio, nil
Int16Pass(w, c) ==
    IF c.at < Len(w.Data) - 1
      THEN [c EXCEPT !.audio = Append(@, ToInt16(LE16(SubSeq(w.Data, c.at + 1, c.at + 2)))),
                     !.at = @ + 2]
      ELSE [c EXCEPT !.ret = << [audio |-> c.audio, err |-> Nil] >>]

\* audio := []float32{}; reader := bytes.NewBuffer(w.Data): the buffer reads
\* the bytes of w.Data from its own offset on
Float32Call(w) ==
    [fn |-> "Float32LESamples", at |-> 0, audio |-> << >>, ret |-> << >>]

\* one pass through for err == nil { ... }, the reader being at offset
\* c.at, and the return the pass leads to, if any
Float32Pass(w, c) ==
    LET r == ReadFull(Source(w.Data), Wide(c.at), 4) IN
    IF r.err = Nil
      THEN LET sample == Float32FromLE(r.data) IN
           IF OutsideRange(sample)
             THEN [c EXCEPT !.at = ToInt(r.pos),
                            !.ret = << [audio |-> << >>, nilAudio |-> TRUE,
                                        err |-> "sample is outside the valid value range",
                                        cause |-> Nil, sample |-> << sample >>] >>]
             ELSE [c EXCEPT !.at = ToInt(r.pos), !.audio = Append(@, sample)]
      ELSE [c EXCEPT !.at = ToInt(r.pos), !.ret = << Float32LoopEnd(r.err, c.audio) >>]

\* Payloads decoded concurrently: up to MaxGroups groups, each 1.0, -0.99 or
\* the float32 next above 1.0, alone or followed by two further bytes
ConcurrentPayloads ==
    { d \in Payloads :
        /\ Len(d) \div 4 <= MaxGroups
        /\ \A i \in 1..(Len(d) \div 4) :
              SubSeq(d, 4 * i - 3, 4 * i)
                \in { << 0, 0, 128, 63 >>, << 164, 112, 125, 191 >>, << 1, 0, 128, 63 >> }
        /\ Len(d) % 4 \in { 0, 2 } }

InitConcurrent ==
    /\ src = Source(<< >>)
    /\ pos = Wide(0)
    /\ pc = "decode"
    /\ riffhdr = ZeroRiffHeader
    /\ chunk = << 0, 0, 0, 0 >>
    /\ chunkFmt = ZeroChunkFmt
    /\ chunkSize = Wide(0)
    /\ hdr = ZeroWavHeader
    /\ err = Nil
    /\ \E h \in DecodeHeaders, d \in ConcurrentPayloads :
           wav = << [Header |-> h, Data |-> d] >>
    /\ file = wav[1]
    /\ out16 = << >>
    /\ out32 = << >>
    /\ calls = 0
    /\ running = << >>
    /\ NoDiff

\* a caller starts w.Int16LESamples() while other calls may be running
callInt16 ==
    /\ pc = "decode"
    /\ calls < MaxCalls
    /\ running' = Append(running, Int16Call(wav[1]))
    /\ calls' = calls + 1
    /\ UNCHANGED <<file, src, pos, pc, riffhdr, chunk, chunkFmt, chunkSize, hdr,
                   err, wav, out16, out32>>
    /\ UNCHANGED diffVars

\* a caller starts w.Float32LESamples() while other calls may be running
callFloat32 ==
    /\ pc = "decode"
    /\ calls < MaxCalls
    /\ running' = Append(running, Float32Call(wav[1]))
    /\ calls' = calls + 1
    /\ UNCHANGED <<file, src, pos, pc, riffhdr, chunk, chunkFmt, chunkSize, hdr,
                   err, wav, out16, out32>>
    /\ UNCHANGED diffVars

\* call t makes its next pass through the loop of Int16LESamples
passInt16(t) ==
    /\ pc = "decode"
    /\ running[t].fn = "Int16LESamples"
    /\ running[t].ret = << >>
    /\ running' = [running EXCEPT ![t] = Int16Pass(wav[1], @)]
    /\ UNCHANGED <<file, src, pos, pc, riffhdr, chunk, chunkFmt, chunkSize, hdr,
                   err, wav, out16, out32, calls>>
    /\ UNCHANGED diffVars

\* variant: the reader is kept with the Wav, so the calls share its offset
passFloat32_SharedReader(t) ==
    /\ pc = "decode"
    /\ running[t].fn = "Float32LESamples"
    /\ running[t].ret = << >>
    /\ running' = [running EXCEPT ![t] = Float32Pass(wav[1], [@ EXCEPT !.at = ToInt(pos)])]
    /\ pos' = Wide(running'[t].at)
    /\ UNCHANGED <<file, src, pc, riffhdr, chunk, chunkFmt, chunkSize, hdr,
                   err, wav, out16, out32, calls>>
    /\ UNCHANGED diffVars

\* call t makes its next pass through the loop of Float32LESamples, reading
\* from its own reader
passFloat32(t) ==
    /\ pc = "decode"
    /\ running[t].fn = "Float32LESamples"
    /\ running[t].ret = << >>
    /\ running' = [running EXCEPT ![t] = Float32Pass(wav[1], @)]
    /\ UNCHANGED <<file, src, pos, pc, riffhdr, chunk, chunkFmt, chunkSize, hdr,
                   err, wav, out16, out32, calls>>
    /\ UNCHANGED diffVars

NextConcurrent ==
    \/ callInt16
    \/ callFloat32
    \/ \E t \in 1..Len(running) : passInt16(t)
    \/ \E t \in 1..Len(running) : passFloat32(t)

SpecConcurrent == InitConcurrent /\ [][NextConcurrent]_vars

----------------------------------------------------------------------------
(* wavediff: main with its file arguments, diffHeaders on the headers of   *)
(* the two loaded files, and the exit status.  A line printed to standard  *)
(* output is kept as its label and the two values printed.                 *)

Line(label, left, right) == [label |-> label, left |-> left, right |-> right]

\* writeHeader: the two lines printed before the first difference
Banner == << Line("header differs from header", 0, 0),
             Line("values will be on the left, on the right", 0, 0) >>

\* for i, b := range a { if b2[i] != b { writeDiff(...) } }
ByteDiffs(label, a, b) ==
    LET idx == SelectSeq(<< 1, 2, 3, 4 >>, LAMBDA i : b[i] # a[i]) IN
    [k \in 1..Len(idx) |-> Line(label, a[idx[k]], b[idx[k]])]

\* if x1 != x2 { writeDiff(...) }
FieldDiff(label, x1, x2) == IF x1 # x2 THEN << Line(label, x1, x2) >> ELSE << >>

RiffDiffs(h1, h2) ==
    ByteDiffs("RIFF Ident Byte", h1.RIFFHdr.Ident, h2.RIFFHdr.Ident)
    \o FieldDiff("ChunkSize", h1.RIFFHdr.ChunkSize, h2.RIFFHdr.ChunkSize)
    \o ByteDiffs("FileType Byte", h1.RIFFHdr.FileType, h2.RIFFHdr.FileType)

FmtDiffs(cf1, cf2) ==
    FieldDiff("Length Of Header", cf1.LengthOfHeader, cf2.LengthOfHeader)
    \o FieldDiff("Audio Format", cf1.AudioFormat, cf2.AudioFormat)
    \o FieldDiff("Number Of Channels", cf1.NumChannels, cf2.NumChannels)
    \o FieldDiff("Samplerate", cf1.SampleRate, cf2.SampleRate)
    \o FieldDiff("Bytes Per Sec", cf1.BytesPerSec, cf2.BytesPerSec)
    \o FieldDiff("Bytes Per Sec", cf1.BytesPerBloc, cf2.BytesPerBloc)
    \o FieldDiff("Bits Per Sample", cf1.BitsPerSample, cf2.BitsPerSample)

\* variant: the data block sizes are not compared
DataDiffs_PositionOnly(h1, h2) ==
    FieldDiff("First Sample Position", h1.FirstSamplePos, h2.FirstSamplePos)

DataDiffs(h1, h2) ==
    FieldDiff("First Sample Position", h1.FirstSamplePos, h2.FirstSamplePos)
    \o FieldDiff("Data Block Size", h1.DataBlockSize, h2.DataBlockSize)

\* the difference lines diffHeaders writes, in the order it writes them
DiffLines(h1, h2) ==
    RiffDiffs(h1, h2) \o FmtDiffs(h1.RIFFChunkFmt, h2.RIFFChunkFmt)
    \o DataDiffs(h1, h2)

\* what diffHeaders prints and returns: the banner goes before the first
\* difference line, and wroteHeader is returned
diffHeadersOf(h1, h2) ==
    LET lines == DiffLines(h1, h2) IN
    [out |-> IF lines # << >> THEN Banner \o lines ELSE << >>,
     wroteHeader |-> lines # << >>]

\* Headers: a parsed header, altered in a set of its 18 compared values
BaseValues == << 82, 73, 70, 70, 36, 87, 65, 86, 69,
                 16, 1, 1, 8000, 16000, 2, 16, 44, 0 >>

HeaderOfValues(v) ==
    [RIFFHdr |-> [Ident |-> << v[1], v[2], v[3], v[4] >>,
                  ChunkSize |-> Wide(v[5]),
                  FileType |-> << v[6], v[7], v[8], v[9] >>],
     RIFFChunkFmt |-> [LengthOfHeader |-> Wide(v[10]), AudioFormat |-> v[11],
                       NumChannels |-> v[12], SampleRate |-> Wide(v[13]),
                       BytesPerSec |-> Wide(v[14]), BytesPerBloc |-> v[15],
                       BitsPerSample |-> v[16]],
     FirstSamplePos |-> Wide(v[17]), DataBlockSize |-> Wide(v[18])]

Altered(S) ==
    HeaderOfValues([i \in 1..Len(BaseValues) |->
                       IF i \in S THEN BaseValues[i] + 1 ELSE BaseValues[i]])

RECURSIVE SetsUpTo(_)
\* the subsets of 1..18 with at most n elements
SetsUpTo(n) ==
    IF n = 0 THEN { {} }
    ELSE LET P == SetsUpTo(n - 1) IN
         P \cup { q \cup {i} : q \in P, i \in 1..Len(BaseValues) }

\* A file argument is kept as what waveparser.Load returns for that path.
Loaded(h) == [Header |-> h, err |-> Nil]
NotLoaded == [Header |-> ZeroWavHeader, err |-> "open or parse error"]

\* os.Args[1:], with no, one, two or three file arguments
ArgLists ==
    LET First == { NotLoaded } \cup { Loaded(Altered(S)) : S \in { {}, {13} } }
        Second == { NotLoaded } \cup { Loaded(Altered(S)) : S \in SetsUpTo(MaxDiff) }
        Pairs == { << a, b >> : a \in First, b \in Second } IN
    { << >> } \cup { << a >> : a \in First } \cup Pairs
    \cup { pr \o << NotLoaded >> : pr \in Pairs }

InitDiff ==
    /\ file = Nil
    /\ src = Source(<< >>)
    /\ pc = "main"
    /\ InitLocals
    /\ args \in ArgLists
    /\ stdout = << >>
    /\ differs = << >>
    /\ exitStatus = << >>

\* the exit status of a process that ends in a panic
PanicStatus == 2

\* abortonerr(err, ...): panics unless err is nil; the message goes to
\* standard error
abortonerr(e, next) ==
    /\ IF e # Nil
         THEN pc' = "exited" /\ exitStatus' = << PanicStatus >>
         ELSE pc' = next /\ UNCHANGED exitStatus
    /\ UNCHANGED <<file, src, pos, riffhdr, chunk, chunkFmt, chunkSize, hdr, err,
                   wav, out16, out32, calls, running, args, stdout, differs>>

\* if len(os.Args) < 3 { fmt.Printf("usage: ..."); return }
mainUsage ==
    /\ pc = "main"
    /\ Len(args) + 1 < 3
    /\ stdout' = << Line("usage", 0, 0) >>
    /\ exitStatus' = << 0 >>
    /\ pc' = "exited"
    /\ UNCHANGED <<file, src, pos, riffhdr, chunk, chunkFmt, chunkSize, hdr, err,
                   wav, out16, out32, calls, running, args, differs>>

\* wav1, err := waveparser.Load(wavpath1); abortonerr(err, ...)
mainLoad1 ==
    /\ pc = "main"
    /\ ~ (Len(args) + 1 < 3)
    /\ abortonerr(args[1].err, "load2")

\* wav2, err := waveparser.Load(wavpath2); abortonerr(err, ...)
mainLoad2 ==
    /\ pc = "load2"
    /\ abortonerr(args[2].err, "diffHeaders")

\* diffHeaders(wavpath1, wav1.Header, wavpath2, wav2.Header)
diffHeaders ==
    /\ pc = "diffHeaders"
    /\ LET r == diffHeadersOf(args[1].Header, args[2].Header) IN
       /\ stdout' = stdout \o r.out
       /\ differs' = << r.wroteHeader >>
    /\ pc' = "exit"
    /\ UNCHANGED <<file, src, pos, riffhdr, chunk, chunkFmt, chunkSize, hdr, err,
                   wav, out16, out32, calls, running, args, exitStatus>>

\* the status byte of os.Exit(code)
ExitCode(code) == code % 256

\* if diffHeaders(...) { os.Exit(-1) }; otherwise main returns
mainExit ==
    /\ pc = "exit"
    /\ exitStatus' = IF differs[1] THEN << ExitCode(0 - 1) >> ELSE << 0 >>
    /\ pc' = "exited"
    /\ UNCHANGED <<file, src, pos, riffhdr, chunk, chunkFmt, chunkSize, hdr, err,
                   wav, out16, out32, calls, running, args, stdout, differs>>

NextDiff ==
    \/ mainUsage
    \/ mainLoad1
    \/ mainLoad2
    \/ diffHeaders
    \/ mainExit

SpecDiff == InitDiff /\ [][NextDiff]_vars

----------------------------------------------------------------------------
(* Properties of Load / parseHeader *)

Parsed == pc \in {"readAll", "loaded"}
Failed == pc = "failed"

RECURSIVE SumChunks(_)
\* bytes taken by a list of chunks: 8 for tag and size plus the declared size
SumChunks(cs) ==
    IF cs = << >> THEN Wide(0)
    ELSE Plus(Wide(8), Plus(Wide(Head(cs).size), SumChunks(Tail(cs))))

\* the source holds at least n bytes
HasBytes(n) == AtMost(Wide(n), Size(src))

\* RIFF header, "fmt ", a fmt body of declared length 16 with an accepted tag
CanonicalHeader ==
    /\ file.ident = TagRIFF
    /\ file.ftag = TagFmt
    /\ file.ext.hl = 16
    /\ isValidWavFormat(file.format)

C1_Case ==
    /\ CanonicalHeader
    /\ file.pre = << >>
    /\ file.data # NoData
    /\ HasBytes(44)

\* C1: a canonical 16-byte fmt chunk directly followed by a "data" chunk of
\* declared size S always parses, with FirstSamplePos = 44 and
\* DataBlockSize = S, whatever S is and whatever follows.
C1_CanonicalLayout ==
    C1_Case =>
        /\ ~ Failed
        /\ pc # "loaded" => ENABLED Next
        /\ Parsed => /\ err = Nil
                     /\ hdr.FirstSamplePos = Wide(44)
                     /\ hdr.DataBlockSize = Wide(file.data)

C1_Witness ==
    /\ C1_Case
    /\ pc = "loaded"
    /\ file.data = HugeSize
    /\ file.format = WaveFormatIEEEFloat
    /\ Size(src) = Wide(44 + MaxTrail)

C2_Case ==
    /\ CanonicalHeader
    /\ file.pre # << >>
    /\ BodiesPresent(file.pre)
    /\ file.data # NoData
    /\ AtMost(Plus(Wide(36 + 8), SumChunks(file.pre)), Size(src))

\* offsets at which the chunks before the data chunk, and the data chunk, start
C2_Boundaries ==
    { Plus(Wide(36), SumChunks(SubSeq(file.pre, 1, k))) : k \in 0..Len(file.pre) }

\* C2: chunks that are not "data" between the fmt chunk and the data chunk are
\* skipped by exactly their declared size (their bodies are never read as
\* tags), and the parse succeeds with FirstSamplePos = 36 + sum(8 + s_i) + 8
\* and DataBlockSize = S.
C2_SkipsUnknownChunks ==
    C2_Case =>
        /\ ~ Failed
        /\ (pc = "walk" /\ chunk # TagData) => pos \in C2_Boundaries
        /\ Parsed => /\ err = Nil
                     /\ hdr.FirstSamplePos = Plus(Wide(36 + 8), SumChunks(file.pre))
                     /\ hdr.DataBlockSize = Wide(file.data)

\* the format tags the package documents as WAVE formats
DocumentedFormats ==
    {WaveFormatPCM, WaveFormatIEEEFloat, WaveFormatALAW, WaveFormatMULAW,
     WaveFormatExtensible}

PastRIFF == pc # "parseRIFFHeader"
PastFmtID == pc \notin {"parseRIFFHeader", "readFmtID"}
PastFmt == pc \notin {"parseRIFFHeader", "readFmtID", "readChunkFmt"}

\* C6: behind a valid RIFF header and "fmt " tag, the parse is rejected as an
\* unsupported format exactly when the format tag is none of 1, 3, 6, 7 and
\* 0xFFFE; each of the five passes the format check.
C6_FormatAccepted ==
    (file.ident = TagRIFF /\ file.ftag = TagFmt /\ HasBytes(36) /\ PastFmt) =>
        (err = "Isn't an audio format" <=> file.format \notin DocumentedFormats)

WalkErrors == {"error getting extra fmt params", "Expected data chunkid",
               "Expected data chunkSize"}

\* C7: the checks run in a fixed order and the first failing one is reported:
\* a wrong identifier gives the RIFF error whatever follows the 12-byte
\* header; else a wrong first tag gives the chunk-type error whatever the fmt
\* body is; else an unaccepted format tag gives the format error with nothing
\* read beyond the fmt body; a later error is never reported when an earlier
\* check fails.
C7_CheckOrder ==
    /\ (HasBytes(12) /\ file.ident # TagRIFF /\ PastRIFF) =>
           Failed /\ err = "Invalid RIFF identification" /\ pos = Wide(12)
    /\ (HasBytes(16) /\ file.ident = TagRIFF /\ file.ftag # TagFmt /\ PastFmtID) =>
           Failed /\ err = "Unexpected chunk type" /\ pos = Wide(16)
    /\ (HasBytes(36) /\ file.ident = TagRIFF /\ file.ftag = TagFmt
          /\ file.format \notin DocumentedFormats /\ PastFmt) =>
           Failed /\ err = "Isn't an audio format" /\ pos = Wide(36)
    /\ err = "Unexpected chunk type" => file.ident = TagRIFF
    /\ err = "Isn't an audio format" => file.ident = TagRIFF /\ file.ftag = TagFmt
    /\ (err \in WalkErrors \/ Parsed) =>
           /\ file.ident = TagRIFF
           /\ file.ftag = TagFmt
           /\ file.format \in DocumentedFormats

C7_Witness ==
    /\ Failed
    /\ err = "Invalid RIFF identification"
    /\ file.ident = Tagriff
    /\ file.ftag = TagFmtU
    /\ file.format = 2
    /\ HasBytes(44)

C7_WitnessFmt ==
    /\ Failed
    /\ err = "Unexpected chunk type"
    /\ file.format = 2
    /\ HasBytes(44)

C7_WitnessFormat ==
    /\ Failed
    /\ err = "Isn't an audio format"
    /\ file.format = 2
    /\ file.ext.hl # 16
    /\ file.data # NoData
    /\ src = Source(EncodeFile(file))

\* offsets at which the walk reads a chunk's tag and size, by declared sizes
ChunkBoundaries ==
    { Plus(Wide(WalkStart(file)), SumChunks(SubSeq(file.pre, 1, k))) :
        k \in 0..Len(file.pre) }

\* what holds of the header at every point of a run
C8_Header ==
    /\ Parsed => \E b \in ChunkBoundaries :
                 /\ AtMost(Plus(b, Wide(8)), Size(src))
                 /\ Bytes(src, b, 4) = TagData
                 /\ hdr.DataBlockSize = LE32(Bytes(src, Plus(b, Wide(4)), 4))
                 /\ hdr.FirstSamplePos = Uint32(Plus(b, Wide(8)))
                 /\ pc = "readAll" => pos = Plus(b, Wide(8))
    /\ Failed => err # Nil /\ hdr = ZeroWavHeader /\ wav = << >>
    /\ ~ Parsed => hdr = ZeroWavHeader

\* C8: parseHeader succeeds only with a whole 8-byte chunk header tagged
\* "data" read at a chunk boundary; every other run ends in an error with the
\* zero-valued header, and the header is never partially filled.
C8_SuccessNeedsDataChunk ==
    /\ C8_Header
    /\ (~ Failed /\ pc # "loaded") => ENABLED Next

\* runs in which the source ends before a "data" chunk header is complete
C8_Witness ==
    /\ Failed
    /\ err = "Expected data chunkSize"
    /\ file.pre # << >>
    /\ chunk = TagData

C8_WitnessSkipPastEnd ==
    /\ Failed
    /\ err = "Expected data chunkid"
    /\ Less(Size(src), pos)
    /\ file.data # NoData

\* C9: when parseHeader succeeds the source is positioned at FirstSamplePos,
\* right behind the data chunk's tag and size, and Load returns as Data every
\* byte from there to the end of the file, whatever DataBlockSize says.
C9_PayloadIsRest ==
    /\ pc = "readAll" => /\ pos = hdr.FirstSamplePos
                         /\ Bytes(src, Minus(pos, Wide(8)), 4) = TagData
    /\ pc = "loaded" =>
           /\ wav # << >>
           /\ wav[1].Header = hdr
           /\ Wide(Len(wav[1].Data)) = Minus(Size(src), hdr.FirstSamplePos)
           /\ \A i \in 1..Len(wav[1].Data) :
                  wav[1].Data[i] = ByteAt(src, Plus(hdr.FirstSamplePos, Wide(i - 1)))

\* C10: the payload Load returns is at least as long as the declared data
\* chunk.
C10_PayloadCoversDataChunk ==
    pc = "loaded" => AtMost(wav[1].Header.DataBlockSize, Wide(Len(wav[1].Data)))

\* header up to the format check passes; the data chunk follows the fmt chunk
C11_Header ==
    /\ file.ident = TagRIFF
    /\ file.ftag = TagFmt
    /\ isValidWavFormat(file.format)
    /\ file.pre = << >>

\* the extra params size the source declares behind the fmt fields
C11_ExtraSize == LE16(SubSeq(file.ext.bytes, 1, 2))

\* C11: with a declared header length other than 16, one 16-bit size e is
\* read behind the fmt fields and exactly e bytes are skipped, whatever the
\* header length is, so a "data" chunk right behind them gives
\* FirstSamplePos = 46 + e; with header length 16 nothing is read or skipped;
\* when the size field cannot be read, the parse fails.
C11_ExtraParamsSkipped ==
    C11_Header =>
        /\ pc = "extraParams" => file.ext.hl # 16 /\ pos = Wide(36)
        /\ (pc = "walk" /\ chunk = TagFmt) =>
               pos = Wide(IF file.ext.hl # 16 THEN 38 + C11_ExtraSize ELSE 36)
        /\ (file.ext.hl # 16 /\ file.data # NoData
              /\ HasBytes(46 + C11_ExtraSize)) =>
               /\ ~ Failed
               /\ pc # "loaded" => ENABLED Next
               /\ Parsed => /\ hdr.FirstSamplePos = Wide(46 + C11_ExtraSize)
                            /\ hdr.DataBlockSize = Wide(file.data)
        /\ (file.ext.hl # 16 /\ HasBytes(36) /\ ~ HasBytes(38) /\ PastFmt
              /\ pc # "extraParams") =>
               Failed /\ err = "error getting extra fmt params"
        /\ err = "error getting extra fmt params" =>
               file.ext.hl # 16 /\ ~ HasBytes(38)

C11_Witness ==
    /\ C11_Header
    /\ pc = "loaded"
    /\ file.ext.hl = 40
    /\ C11_ExtraSize = 2
    /\ hdr.FirstSamplePos = Wide(48)

C11_WitnessTruncated ==
    /\ C11_Header
    /\ Failed
    /\ err = "error getting extra fmt params"
    /\ Size(src) = Wide(37)

----------------------------------------------------------------------------
(* Properties of the sample decoders *)

\* the complete 4-byte groups of a payload, decoded in payload order
GroupsOf(data) ==
    [i \in 1..(Len(data) \div 4) |-> Float32FromLE(SubSeq(data, 4 * i - 3, 4 * i))]

\* -1.0 <= f <= 1.0
InRange(f) == ~ IsNaN(f) /\ Magnitude(f) <= Magnitude(maxval)

AllInRange(data) == \A i \in 1..(Len(data) \div 4) : InRange(GroupsOf(data)[i])

C3_Case ==
    /\ out32 # << >>
    /\ Len(wav[1].Data) % 4 # 0
    /\ AllInRange(wav[1].Data)

C4_Case == out32 # << >> /\ Len(wav[1].Data) % 4 = 0

\* C4: on a payload of whole 4-byte groups, Float32LESamples returns exactly
\* the decoded values when all lie in [-1.0, 1.0], fails without samples when
\* any does not, and so never returns a sample outside [-1.0, 1.0].
C4_RangeValidated ==
    C4_Case =>
        /\ AllInRange(wav[1].Data) => /\ out32[1].err = Nil
                                   /\ out32[1].audio = GroupsOf(wav[1].Data)
        /\ ~ AllInRange(wav[1].Data) => /\ out32[1].err # Nil
                                     /\ out32[1].nilAudio
        /\ out32[1].err = Nil =>
               \A i \in 1..Len(out32[1].audio) : InRange(out32[1].audio[i])

\* signed 16-bit value with low byte lo and high byte hi
Signed16(lo, hi) == lo + 256 * (hi % 128) - 32768 * (hi \div 128)

RECURSIVE EncodeInt16LE(_)
\* binary.Write(buf, binary.LittleEndian, []int16)
EncodeInt16LE(samples) ==
    IF samples = << >> THEN << >>
    ELSE PutLE16(Head(samples) % Pow16) \o EncodeInt16LE(Tail(samples))

\* C5: Int16LESamples never fails and returns floor(n/2) samples, sample i
\* being the signed value of bytes 2i (low) and 2i+1 (high); an odd last byte
\* is ignored, and the payload's even prefix is the little-endian encoding of
\* the samples returned.
C5_Int16Decode ==
    out16 # << >> =>
        LET n == Len(wav[1].Data) IN
        /\ out16[1].err = Nil
        /\ Len(out16[1].audio) = n \div 2
        /\ \A i \in 1..Len(out16[1].audio) :
              /\ out16[1].audio[i] = Signed16(wav[1].Data[2 * i - 1], wav[1].Data[2 * i])
              /\ out16[1].audio[i] \in (0 - 32768)..32767
        /\ EncodeInt16LE(out16[1].audio) = SubSeq(wav[1].Data, 1, 2 * (n \div 2))

C5_Witness ==
    /\ out16 # << >>
    /\ Len(wav[1].Data) = 4 * MaxSamples + 1
    /\ \E i \in 1..Len(out16[1].audio) : out16[1].audio[i] < 0
    /\ \E i \in 1..Len(out16[1].audio) : out16[1].audio[i] > 0

C5_WitnessOneByte ==
    /\ out16 # << >>
    /\ Len(wav[1].Data) = 1
    /\ out16[1].audio = << >>

\* every call that has returned, with what it returned
Returned == { t \in 1..Len(running) : running[t].ret # << >> }

\* C12: the decoders leave the Wav's Data and Header as they were, and every
\* call, whatever calls ran before it or run interleaved with it on the same
\* Wav, returns what a single call returns on the original payload, whatever
\* header the Wav carries.
C12_DecodersReadOnly ==
    /\ wav = << file >>
    /\ \A t \in Returned :
          /\ running[t].fn = "Int16LESamples" =>
                 running[t].ret[1] = Int16LESamplesOf(file.Data)
          /\ running[t].fn = "Float32LESamples" =>
                 running[t].ret[1] = Float32LESamplesOf(file.Data)

\* a Float32LESamples call has run from start to return while an earlier
\* call, started before it, was inside its loop, on a Wav with a PCM header
C12_Witness ==
    /\ Returned = { 2 }
    /\ running[2].fn = "Float32LESamples"
    /\ Len(running[2].ret[1].audio) = MaxGroups
    /\ running[1].fn = "Float32LESamples"
    /\ running[1].at > 0
    /\ running[1].at < Len(file.Data)
    /\ file.Header.RIFFChunkFmt.AudioFormat = WaveFormatPCM

\* both decoders have run on the same Wav, the one inside the other's loop
C12_WitnessBoth ==
    /\ Returned = { 2 }
    /\ running[2].fn = "Int16LESamples"
    /\ running[2].ret[1].audio # << >>
    /\ running[1].fn = "Float32LESamples"
    /\ running[1].at > 0

\* the calls have all returned
C12_WitnessReturned ==
    /\ Returned = 1..MaxCalls
    /\ \E t \in Returned : running[t].ret[1].err # Nil

----------------------------------------------------------------------------
(* Properties of wavediff *)

\* the 18 values diffHeaders compares, read off a header
ComparedValues(h) ==
    h.RIFFHdr.Ident \o << h.RIFFHdr.ChunkSize >> \o h.RIFFHdr.FileType
    \o << h.RIFFChunkFmt.LengthOfHeader, h.RIFFChunkFmt.AudioFormat,
          h.RIFFChunkFmt.NumChannels, h.RIFFChunkFmt.SampleRate,
          h.RIFFChunkFmt.BytesPerSec, h.RIFFChunkFmt.BytesPerBloc,
          h.RIFFChunkFmt.BitsPerSample, h.FirstSamplePos, h.DataBlockSize >>

DifferingValues(h1, h2) ==
    { i \in 1..18 : ComparedValues(h1)[i] # ComparedValues(h2)[i] }

\* the printed lines that report a difference
DifferenceLines(out) ==
    SelectSeq(out, LAMBDA l : l.label \notin { Banner[1].label, Banner[2].label })

OnlySampleRateDiffers(h1, h2) ==
    /\ h1.RIFFChunkFmt.SampleRate # h2.RIFFChunkFmt.SampleRate
    /\ [h1 EXCEPT !.RIFFChunkFmt.SampleRate = Wide(0)]
         = [h2 EXCEPT !.RIFFChunkFmt.SampleRate = Wide(0)]

\* diffHeaders is called only with two file arguments that both load
DiffHeadersCalled == differs # << >>

\* C13: diffHeaders returns true, and wavediff exits with a non-zero status,
\* exactly when the two headers differ in a compared field; identical headers
\* print nothing; headers that differ only in SampleRate give exactly one
\* difference line.
C13_DiffHeaders ==
    /\ DiffHeadersCalled <=> /\ pc \in {"exit", "exited"}
                             /\ Len(args) >= 2
                             /\ exitStatus # << PanicStatus >>
    /\ DiffHeadersCalled =>
        LET h1 == args[1].Header
            h2 == args[2].Header IN
        /\ args[1].err = Nil /\ args[2].err = Nil
        /\ differs[1] <=> DifferingValues(h1, h2) # {}
        /\ differs[1] <=> h1 # h2
        /\ Len(DifferenceLines(stdout)) = Cardinality(DifferingValues(h1, h2))
        /\ h1 = h2 => stdout = << >>
        /\ OnlySampleRateDiffers(h1, h2) =>
               /\ Len(DifferenceLines(stdout)) = 1
               /\ DifferenceLines(stdout)[1].label = "Samplerate"
        /\ pc = "exited" => (exitStatus[1] # 0 <=> h1 # h2)

C13_Witness ==
    /\ pc = "exited"
    /\ DiffHeadersCalled
    /\ OnlySampleRateDiffers(args[1].Header, args[2].Header)
    /\ exitStatus = << 255 >>
    /\ Len(stdout) = 3

C13_WitnessIdentical ==
    /\ pc = "exited"
    /\ DiffHeadersCalled
    /\ args[1] = args[2]
    /\ args[1].Header.RIFFChunkFmt.SampleRate = Wide(8001)
    /\ exitStatus = << 0 >>
    /\ stdout = << >>

----------------------------------------------------------------------------
(* Termination of the chunk walk *)

\* one pass through the body of the loop, taken with a chunk other than
\* "data" in hand: it returns an error without moving backwards, which it
\* only does when fewer than 8 bytes are left, or it has read 8 bytes and
\* skipped the declared size of a chunk that is not "data"
C14_Iteration ==
    (pc = "walk" /\ chunk # TagData) =>
        \/ /\ pc' = "failed"
           /\ AtMost(pos, pos')
           /\ Less(Size(src), Plus(pos, Wide(8)))
        \/ /\ pc' = "walk"
           /\ AtMost(Plus(pos, Wide(8)), Size(src))
           /\ AtMost(Plus(pos, Wide(8)), pos')
           /\ pos' = IF chunk' = TagData THEN Plus(pos, Wide(8))
                                         ELSE Plus(Plus(pos, Wide(8)), chunkSize')

\* C14: every iteration of parseHeader's chunk walk fails or moves the
\* position forward by at least 8 bytes, a chunk of declared size 0 included,
\* never backwards; and the walk always ends, on a "data" chunk or in an error.
C14_WalkTerminates ==
    /\ [][C14_Iteration]_vars
    /\ (pc = "walk") ~> (Parsed \/ Failed)

C14_Witness ==
    /\ pc = "walk"
    /\ Len(file.pre) = 2
    /\ chunk = TagLIST
    /\ chunkSize = Wide(0)
    /\ pos = Wide(WalkStart(file) + 16)

====
